---- MODULE Spec2Model ----
(***************************************************************************)
(* Chaos_Monkey_Demo: the fault injector (chaos_monkey.py), as it is run   *)
(* by demo_runner.py (one OS process per launch of the script), and the    *)
(* health probes of system_monitor.py and streamlit_app.py, and the        *)
(* monitoring loop of system_monitor.py, and the worker threads of         *)
(* load_tester.py; and, each on its own, the short demo script of          *)
(* test_complete_demo.py, the process lists of demo_runner.py and          *)
(* streamlit_app.py, and the request counters of demo_app.py.              *)
(*                                                                         *)
(* Time is counted in whole seconds.  A blocking time.sleep(n) is a timer  *)
(* of n seconds that must be served when it reaches 0; every other step    *)
(* takes no time.                                                          *)
(***************************************************************************)
EXTENDS Integers, Sequences, FiniteSets, TLC

\* ------------------------------------------------------------- bounds
NumMonkeys == 2
MaxExperiments == 2
ProbScale == 4
Interval == 2
MaxSamples == 102
MaxWatchSamples == 3
MaxReleases == 2
NumLoadThreads == 2
MaxRequests == 2
\* the number of components a ChaosDemo starts
MaxComponents == 3
\* the number of processes a StreamlitChaosDemo creates
MaxSpawns == 3
\* the request threads of the demo application and the requests they serve
NumAppThreads == 2
MaxAppRequests == 3
\* the `duration` of a load test, in seconds
LoadDuration == 1
\* the number of polls of /health that fit in the timeout of wait_for_app
ReadyPolls == 2
\* the host: megabytes of memory that can still be allocated before usage
\* passes max_memory_percent, and megabytes of disk that can still be written
\* before the disk has no headroom left
MemoryHeadroomMb == 1
DiskHeadroomMb == 0

\* ---------------------------------------------------- program constants
DefaultCores == 2
DefaultMb == 100
DefaultSizeMb == 10
ServiceRestartTime == 2
HistoryLimit == 100
QuickExperiments == 3

Monkeys == 1..NumMonkeys

NoParameters == [k \in {} |-> 0]

\* dict.get(key, default) on experiment.parameters (None reads as no keys)
ParamGet(parameters, key, default) ==
    IF key \in DOMAIN parameters THEN parameters[key] ELSE default

\* The ChaosExperiment values a script may register: the six experiments of
\* create_sample_experiments, one per chaos type, with durations of one or two
\* seconds and with probabilities that cover 0.0, 1.0 and a value in between.
\* probability p stands for p / ProbScale; target "None" is host-local.
ExperimentChoices ==
    { [name |-> "Light CPU Stress", chaos_type |-> "cpu_stress",
       duration |-> 2, probability |-> ProbScale, target |-> "None",
       parameters |-> [cores |-> 2]],
      [name |-> "Memory Allocation Test", chaos_type |-> "memory_stress",
       duration |-> 2, probability |-> 1, target |-> "None",
       parameters |-> [mb |-> 2]],
      [name |-> "Network Latency Simulation", chaos_type |-> "network_latency",
       duration |-> 1, probability |-> 0, target |-> "None",
       parameters |-> [latency_ms |-> 500]],
      [name |-> "Service Kill Test", chaos_type |-> "service_kill",
       duration |-> 1, probability |-> 1, target |-> "web_service",
       parameters |-> NoParameters],
      [name |-> "Temporary Disk Fill", chaos_type |-> "disk_fill",
       duration |-> 1, probability |-> ProbScale, target |-> "None",
       parameters |-> [size_mb |-> 1]],
      [name |-> "Process Hang Simulation", chaos_type |-> "process_hang",
       duration |-> 1, probability |-> 1, target |-> "None",
       parameters |-> NoParameters] }

\* a ChaosExperiment a script can also construct: the dataclass takes any
\* duration, and time.sleep raises ValueError for a negative one
InvalidChoices ==
    { [name |-> "Process Hang Simulation", chaos_type |-> "process_hang",
       duration |-> -1, probability |-> ProbScale, target |-> "None",
       parameters |-> NoParameters] }

\* the parameters with which the fault's own code raises
InvalidParameters(e) == e.duration < 0

Targets == {e.target : e \in ExperimentChoices}

MaxCores == 3
Workers == 1..MaxCores

VARIABLES
    experiments,    \* Seq(experiment): self.experiments, as the script fills it
    running,        \* [monkey -> BOOLEAN]           self.running
    pc,             \* [monkey -> location of the thread that called start()]
    cur,            \* [monkey -> index of the experiment of this tick, 0 = none]
    timer,          \* [monkey -> seconds left of the current time.sleep]
    workers,        \* [monkey -> [worker -> "none" | "check" | "spin" | "done"]]
    cpu_left,       \* [monkey -> seconds left until the workers' end_time]
    memory_hog,     \* [monkey -> number of 1MB chunks held]
    temp_file,      \* BOOLEAN: /tmp/chaos_monkey_temp.dat exists
    exc,            \* [monkey -> "none" | "error" | "kbd"] exception in flight
    outcome,        \* [monkey -> set of log lines of this tick]
    sinceTerminal,  \* [target -> seconds since a run on it last ended, capped]
    \* ------- the health probes (system_monitor.py, streamlit_app.py)
    probe_pc,       \* "idle" | "stats" | "returned" | "raised"
    prober,         \* "none" | "monitor" | "dashboard": whose probe this is
    health_response,\* answer to GET /health: a status code or a failure
    stats_response, \* answer to GET /stats: a status code or a failure
    sample,         \* what the probe returned
    \* ------- the monitoring loop (system_monitor.py)
    monitoring,     \* BOOLEAN: self.monitoring
    mon_pc,         \* location of the thread that runs monitor_loop
    metrics_history,\* Seq(sample): self.metrics_history; a sample is named by
                    \* its place in the order of collection (1 = first)
    collected,      \* number of samples the loop has collected so far
    alerts,         \* what _check_alerts returned for the latest sample
    run_unreachable,\* [monkey -> number of consecutive unreachable samples the
                    \* monitor has taken while the monkey's current run was
                    \* Active]
    \* ------- the load tester (load_tester.py)
    stats,          \* self.stats: the three request counters
    lt_pc,          \* [worker thread -> location inside _make_request]
    lt_reg,         \* [worker thread -> the counter value it has read]
    lt_result,      \* [worker thread -> "none" | "success" | "failure"]
    made,           \* number of requests the worker threads have made
    lt_running,     \* BOOLEAN: self.running of the LoadTester
    lt_left,        \* seconds left until the workers' end_time
    lt_main,        \* location of the thread that called start_load_test
    lt_finals,      \* how many times the final statistics were produced
    \* ------- the cleanup of a fault, run on its own (chaos_monkey.py)
    rel_pc,         \* "idle" | "held" | "released"
    rel_hog,        \* number of chunks in the fault's memory_hog list
    rel_file,       \* BOOLEAN: the fault's temp file exists
    rel_count,      \* how many times the cleanup has run
    rel_raised,     \* BOOLEAN: the last cleanup raised
    \* ------- the short demo (test_complete_demo.py) and its chaos script
    sd_pc,          \* location of run_short_demo
    sd_child,       \* [child -> "none" | "running" | "exited" | "stopped"]
    sd_processes,   \* Seq(child): the list `processes` of run_short_demo
    sd_polls,       \* polls of /health that wait_for_app has made
    chaos_output,   \* "none" | "output" | "failed": what run_command returned
    qc_pc,          \* location of temp_chaos_test.py
    qc_i,           \* experiments the script has finished
    \* ------- the endpoint choice of the load tester (load_tester.py)
    wc_rand,        \* the draw of random.randint(1, total_weight), 0 = none yet
    wc_path,        \* the path _weighted_choice returned
    wc_fallback,    \* BOOLEAN: it was returned by the fallback statement
    \* ------- the demo runner (demo_runner.py)
    cd_pc,          \* "menu" | "stopping" | "stopped": where the ChaosDemo is
    cd_state,       \* [process -> "none" | "running" | "exited" | "terminated" | "killed"]
    cd_processes,   \* Seq(process): self.processes
    cd_i,           \* index of the component the loop of stop_all is at
    cd_started,     \* number of processes start_component has created
    cd_failed,      \* processes whose stop has raised in a stop_all
    cd_signalled,   \* processes the latest stop_all has called terminate() on
    \* ------- the dashboard's components (streamlit_app.py)
    sl_table,       \* [component -> process, 0 = not tracked]: self.running_processes
    sl_proc,        \* [process -> "none" | "running" | "exited" | "terminated"]
    sl_spawned,     \* number of processes start_component has created
    sl_last,        \* the latest call: its name, its component and what it returned
    \* ------- the demo application (demo_app.py)
    app_state,      \* the counters request_count and error_count of app_state
    ap_pc,          \* [request thread -> location inside its view function]
    ap_reg,         \* [request thread -> the counter value it has read]
    ap_route,       \* [request thread -> the route it is serving]
    ap_served,      \* number of requests the views have taken
    ap_stats        \* what the latest /stats answered

chaosVars == <<experiments, running, pc, cur, timer, workers, cpu_left, memory_hog,
               temp_file, exc, outcome, sinceTerminal>>
probeVars == <<probe_pc, prober, health_response, stats_response, sample>>
monitorVars == <<monitoring, mon_pc, metrics_history, collected, alerts>>
watchVars == <<run_unreachable>>
loadVars == <<stats, lt_pc, lt_reg, lt_result, made, lt_running, lt_left, lt_main,
              lt_finals>>
releaseVars == <<rel_pc, rel_hog, rel_file, rel_count, rel_raised>>
demoVars == <<sd_pc, sd_child, sd_processes, sd_polls, chaos_output, qc_pc, qc_i>>
choiceVars == <<wc_rand, wc_path, wc_fallback>>
runnerVars == <<cd_pc, cd_state, cd_processes, cd_i, cd_started, cd_failed, cd_signalled>>
dashboardVars == <<sl_table, sl_proc, sl_spawned, sl_last>>
appVars == <<app_state, ap_pc, ap_reg, ap_route, ap_served, ap_stats>>
vars == <<chaosVars, probeVars, monitorVars, loadVars, watchVars, releaseVars, demoVars, choiceVars, runnerVars, dashboardVars, appVars>>
\* what a step of the fault injector, of a probe, of the monitoring loop and
\* of the load tester leaves alone
notChaosVars == <<probeVars, monitorVars, loadVars, watchVars, releaseVars, demoVars, choiceVars, runnerVars, dashboardVars, appVars>>
notProbeVars == <<chaosVars, monitorVars, loadVars, watchVars, releaseVars, demoVars, choiceVars, runnerVars, dashboardVars, appVars>>
notMonitorVars == <<chaosVars, probeVars, loadVars, releaseVars, demoVars, choiceVars, runnerVars, dashboardVars, appVars>>
notLoadVars == <<chaosVars, probeVars, monitorVars, watchVars, releaseVars, demoVars, choiceVars, runnerVars, dashboardVars, appVars>>
notReleaseVars == <<chaosVars, probeVars, monitorVars, loadVars, watchVars, demoVars, choiceVars, runnerVars, dashboardVars, appVars>>
notAppVars == <<chaosVars, probeVars, monitorVars, loadVars, watchVars, releaseVars, demoVars, choiceVars, runnerVars, dashboardVars>>
notDashboardVars == <<chaosVars, probeVars, monitorVars, loadVars, watchVars, releaseVars, demoVars, choiceVars, runnerVars, appVars>>
notRunnerVars == <<chaosVars, probeVars, monitorVars, loadVars, watchVars, releaseVars, demoVars, choiceVars, dashboardVars, appVars>>
notChoiceVars == <<chaosVars, probeVars, monitorVars, loadVars, watchVars, releaseVars, demoVars, runnerVars, dashboardVars, appVars>>
notDemoVars == <<chaosVars, probeVars, monitorVars, loadVars, watchVars, releaseVars, choiceVars, runnerVars, dashboardVars, appVars>>
\* what a scheduler tick leaves alone: it starts a new count of the samples
\* taken during the run
notTickVars == <<probeVars, monitorVars, loadVars, releaseVars, demoVars, choiceVars, runnerVars, dashboardVars, appVars>>

\* locations at which the thread is inside _execute_experiment
ExecLocations == {"cpu_join", "mem_alloc", "mem_hold", "disk_write", "disk_hold",
                  "disk_exists", "disk_remove", "hold", "except"}
\* locations at which the thread is blocked in time.sleep
SleepLocations == {"mem_hold", "disk_hold", "hold", "sleep"}

NoWorkers == [w \in Workers |-> "none"]

NoSample == [status |-> "none"]
NoResponse == [kind |-> "none", status_code |-> 0]

\* the child processes run_short_demo starts with run_command
BackgroundChildren == {"Demo App", "System Monitor", "Load Test"}
DemoChildren == BackgroundChildren \cup {"Chaos Experiments"}

\* the processes a ChaosDemo creates, in the order of their creation
Components == 1..MaxComponents

\* the component names start_component of the dashboard knows
DashboardComponents == {"demo_app", "load_tester", "system_monitor"}
\* the names it can be called with
ComponentNames == DashboardComponents \cup {"chaos_monkey"}

\* app.run(threaded=True): every request is served by a thread of its own
AppThreads == 1..NumAppThreads

ProbeInit ==
    /\ probe_pc = "idle"
    /\ prober = "none"
    /\ health_response = NoResponse
    /\ stats_response = NoResponse
    /\ sample = NoSample

MonitorInit ==
    /\ monitoring = FALSE
    /\ mon_pc = "init"
    /\ metrics_history = << >>
    /\ collected = 0
    /\ alerts = {}
    /\ run_unreachable = [m \in Monkeys |-> 0]

LoadWorkers == 1..NumLoadThreads

\* start_load_test resets the statistics and starts the worker threads
LoadInit ==
    /\ stats = [total_requests |-> 0, successful_requests |-> 0,
                failed_requests |-> 0]
    /\ lt_pc = [w \in LoadWorkers |-> "idle"]
    /\ lt_reg = [w \in LoadWorkers |-> 0]
    /\ lt_result = [w \in LoadWorkers |-> "none"]
    /\ made = 0
    /\ lt_running = TRUE
    /\ lt_left = LoadDuration
    /\ lt_main = "monitor"
    /\ lt_finals = 0

ReleaseInit ==
    /\ rel_pc = "idle"
    /\ rel_hog = 0
    /\ rel_file = FALSE
    /\ rel_count = 0
    /\ rel_raised = FALSE

DemoInit ==
    /\ sd_pc = "start_app"
    /\ sd_child = [c \in DemoChildren |-> "none"]
    /\ sd_processes = << >>
    /\ sd_polls = 0
    /\ chaos_output = "none"
    /\ qc_pc = "none"
    /\ qc_i = 0

ChoiceInit ==
    /\ wc_rand = 0
    /\ wc_path = "none"
    /\ wc_fallback = FALSE

RunnerInit ==
    /\ cd_pc = "menu"
    /\ cd_state = [p \in Components |-> "none"]
    /\ cd_processes = << >>
    /\ cd_i = 0
    /\ cd_started = 0
    /\ cd_failed = {}
    /\ cd_signalled = {}

DashboardInit ==
    /\ sl_table = [c \in DashboardComponents |-> 0]
    /\ sl_proc = [p \in 1..MaxSpawns |-> "none"]
    /\ sl_spawned = 0
    /\ sl_last = [op |-> "none", component |-> "none", value |-> FALSE]

AppInit ==
    /\ app_state = [request_count |-> 0, error_count |-> 0]
    /\ ap_pc = [t \in AppThreads |-> "idle"]
    /\ ap_reg = [t \in AppThreads |-> 0]
    /\ ap_route = [t \in AppThreads |-> "none"]
    /\ ap_served = 0
    /\ ap_stats = [asked |-> FALSE, total_requests |-> 0, error_count |-> 0]

ChaosInit ==
    /\ experiments = << >>
    /\ running = [m \in Monkeys |-> FALSE]
    /\ pc = [m \in Monkeys |-> "init"]
    /\ cur = [m \in Monkeys |-> 0]
    /\ timer = [m \in Monkeys |-> 0]
    /\ workers = [m \in Monkeys |-> NoWorkers]
    /\ cpu_left = [m \in Monkeys |-> 0]
    /\ memory_hog = [m \in Monkeys |-> 0]
    /\ temp_file = FALSE
    /\ exc = [m \in Monkeys |-> "none"]
    /\ outcome = [m \in Monkeys |-> {}]
    /\ sinceTerminal = [t \in Targets |-> Interval]

Experiment(m) == experiments[cur[m]]

\* a run is Active from the dispatch in _execute_experiment until that call returns
Active(m) == pc[m] \in ExecLocations \ {"except"}

\* ----------------------------------------------------------- registry
\* every process runs the same script, which registers its experiments and
\* then calls start(): the registry is filled before the first start()
\* a registration that puts the new experiment in front of the list
add_experimentFront(e) ==
    /\ \A m \in Monkeys : pc[m] = "init"
    /\ Len(experiments) < MaxExperiments
    /\ experiments' = <<e>> \o experiments
    /\ UNCHANGED <<running, pc, cur, timer, workers, cpu_left, memory_hog,
                   temp_file, exc, outcome, sinceTerminal>>

add_experiment(e) ==
    /\ \A m \in Monkeys : pc[m] = "init"
    /\ Len(experiments) < MaxExperiments
    /\ experiments' = Append(experiments, e)
    /\ UNCHANGED <<running, pc, cur, timer, workers, cpu_left, memory_hog,
                   temp_file, exc, outcome, sinceTerminal>>

\* ---------------------------------------------------------- scheduler
\* draws of the closed interval [0.0, 1.0]
RandomDrawsClosed == 0..ProbScale

\* random.random() returns a value of [0.0, 1.0): draws r / ProbScale
RandomDraws == 0..(ProbScale - 1)

\* the gate with the comparison turned inclusive
ProbabilityGateInclusive(r, probability) == r <= probability

ProbabilityGate(r, probability) == r < probability

start(m) ==
    /\ pc[m] = "init"
    /\ running' = [running EXCEPT ![m] = TRUE]
    /\ pc' = [pc EXCEPT ![m] = "loop"]
    /\ UNCHANGED <<experiments, cur, timer, workers, cpu_left, memory_hog,
                   temp_file, exc, outcome, sinceTerminal>>

\* time.sleep(interval) at the end of the loop body
EnterSleep(m) ==
    /\ pc' = [pc EXCEPT ![m] = "sleep"]
    /\ timer' = [timer EXCEPT ![m] = Interval]

\* the run of monkey m ends: its target starts to cool down
EndRun(m) == sinceTerminal' = [sinceTerminal EXCEPT ![Experiment(m).target] = 0]

\* the dispatch of _execute_experiment and the first statements of the fault
ExecuteExperiment(m, e) ==
    CASE e.chaos_type = "cpu_stress" ->
            /\ pc' = [pc EXCEPT ![m] = "cpu_join"]
            /\ workers' = [workers EXCEPT ![m] =
                  [w \in Workers |->
                      IF w <= ParamGet(e.parameters, "cores", DefaultCores)
                      THEN "check" ELSE "none"]]
            /\ cpu_left' = [cpu_left EXCEPT ![m] = e.duration]
            /\ UNCHANGED <<timer, memory_hog>>
      [] e.chaos_type = "memory_stress" ->
            /\ pc' = [pc EXCEPT ![m] = "mem_alloc"]
            /\ memory_hog' = [memory_hog EXCEPT ![m] = 0]
            /\ UNCHANGED <<timer, workers, cpu_left>>
      [] e.chaos_type = "disk_fill" ->
            /\ pc' = [pc EXCEPT ![m] = "disk_write"]
            /\ UNCHANGED <<timer, workers, cpu_left, memory_hog>>
      [] e.chaos_type = "service_kill" ->
            /\ pc' = [pc EXCEPT ![m] = "hold"]
            /\ timer' = [timer EXCEPT ![m] = ServiceRestartTime]
            /\ UNCHANGED <<workers, cpu_left, memory_hog>>
      [] e.chaos_type \in {"network_latency", "process_hang"} ->
            IF InvalidParameters(e)
            THEN \* time.sleep(experiment.duration) raises ValueError
                 /\ pc' = [pc EXCEPT ![m] = "except"]
                 /\ UNCHANGED <<timer, workers, cpu_left, memory_hog>>
            ELSE /\ pc' = [pc EXCEPT ![m] = "hold"]
                 /\ timer' = [timer EXCEPT ![m] = e.duration]
                 /\ UNCHANGED <<workers, cpu_left, memory_hog>>

\* the body of `while self.running`, up to the dispatch or the sleep
SchedulerBody(m) ==
    /\ IF experiments = << >>
       THEN /\ EnterSleep(m)
            /\ cur' = [cur EXCEPT ![m] = 0]
            /\ outcome' = [outcome EXCEPT ![m] = {}]
            /\ UNCHANGED <<workers, cpu_left, memory_hog>>
       ELSE \E i \in 1..Len(experiments), r \in RandomDraws :
               /\ cur' = [cur EXCEPT ![m] = i]
               /\ IF ProbabilityGate(r, experiments[i].probability)
                  THEN /\ outcome' = [outcome EXCEPT ![m] = {"executing"}]
                       /\ ExecuteExperiment(m, experiments[i])
                  ELSE /\ outcome' = [outcome EXCEPT ![m] = {"skipping"}]
                       /\ EnterSleep(m)
                       /\ UNCHANGED <<workers, cpu_left, memory_hog>>
    /\ UNCHANGED <<experiments, running, temp_file, exc, sinceTerminal>>

\* one pass of `while self.running`: the condition reads True and the body
\* runs, with no step of another thread in between
SchedulerTick(m) ==
    /\ pc[m] = "loop"
    /\ running[m]
    /\ SchedulerBody(m)

\* `while self.running` reads True, as a step of its own: the thread is
\* about to run the body
LoopCheck(m) ==
    /\ pc[m] = "loop"
    /\ running[m]
    /\ pc' = [pc EXCEPT ![m] = "body"]
    /\ UNCHANGED <<experiments, running, cur, timer, workers, cpu_left,
                   memory_hog, temp_file, exc, outcome, sinceTerminal>>

\* the body runs after the condition has been read
LoopBody(m) ==
    /\ pc[m] = "body"
    /\ SchedulerBody(m)

\* time.sleep(interval) returns and the loop condition is read again
WakeUp(m) ==
    /\ pc[m] = "sleep"
    /\ timer[m] = 0
    /\ pc' = [pc EXCEPT ![m] = "loop"]
    /\ UNCHANGED <<experiments, running, cur, timer, workers, cpu_left,
                   memory_hog, temp_file, exc, outcome, sinceTerminal>>

\* `while self.running` reads False: the finally clause calls stop()
LoopExit(m) ==
    /\ pc[m] = "loop"
    /\ ~running[m]
    /\ pc' = [pc EXCEPT ![m] = "stop"]
    /\ UNCHANGED <<experiments, running, cur, timer, workers, cpu_left,
                   memory_hog, temp_file, exc, outcome, sinceTerminal>>

\* stop() as called by the finally clause of start(); self.threads is empty
StopFinally(m) ==
    /\ pc[m] = "stop"
    /\ running' = [running EXCEPT ![m] = FALSE]
    /\ pc' = [pc EXCEPT ![m] = "returned"]
    /\ UNCHANGED <<experiments, cur, timer, workers, cpu_left, memory_hog,
                   temp_file, exc, outcome, sinceTerminal>>

\* stop() called by another thread while start() is running
stop(m) ==
    /\ running[m]
    /\ pc[m] \notin {"init", "stop", "returned", "killed"}
    /\ running' = [running EXCEPT ![m] = FALSE]
    /\ UNCHANGED <<experiments, pc, cur, timer, workers, cpu_left, memory_hog,
                   temp_file, exc, outcome, sinceTerminal>>

Log(m, line) ==
    outcome' = [outcome EXCEPT ![m] =
                   @ \cup {line} \cup (IF exc[m] = "kbd" THEN {"stopped_by_user"} ELSE {})]

\* control leaves a fault's finally clause (or its last statement): the
\* exception in flight decides where the thread goes
\*   none  -> _execute_experiment returns, the loop sleeps
\*   error -> `except Exception` of _execute_experiment
\*   kbd   -> `except KeyboardInterrupt` of start(), then its finally clause
Unwind(m, e) ==
    CASE e = "none"  -> EnterSleep(m)
      [] e = "error" -> /\ pc' = [pc EXCEPT ![m] = "except"]
                        /\ UNCHANGED timer
      [] e = "kbd"   -> /\ pc' = [pc EXCEPT ![m] = "stop"]
                        /\ timer' = [timer EXCEPT ![m] = 0]

\* a handler that lets the error go on to start(), whose finally clause stops
ExceptHandlerReraise(m) ==
    /\ pc[m] = "except"
    /\ pc' = [pc EXCEPT ![m] = "stop"]
    /\ timer' = [timer EXCEPT ![m] = 0]
    /\ EndRun(m)
    /\ UNCHANGED <<experiments, running, cur, workers, cpu_left, memory_hog,
                   temp_file, exc, outcome>>

\* `except Exception as e: self.logger.error(...)`
ExceptHandler(m) ==
    /\ pc[m] = "except"
    /\ Log(m, "error")
    /\ exc' = [exc EXCEPT ![m] = "none"]
    /\ EnterSleep(m)
    /\ EndRun(m)
    /\ UNCHANGED <<experiments, running, cur, workers, cpu_left, memory_hog,
                   temp_file>>

\* ---------------------------------------------------------- _cpu_stress
Alive(m) == {w \in Workers : workers[m][w] \in {"check", "spin"}}

\* a loop condition that reads the clock only
BurnConditionClockOnly(m) == cpu_left[m] > 0

\* cpu_burn evaluates `time.time() < end_time and self.running`
BurnCondition(m) == cpu_left[m] > 0 /\ running[m]

CpuBurnCheck(m, w) ==
    /\ workers[m][w] = "check"
    /\ workers' = [workers EXCEPT ![m][w] =
                      IF BurnCondition(m) THEN "spin" ELSE "done"]
    /\ UNCHANGED <<experiments, running, pc, cur, timer, cpu_left, memory_hog,
                   temp_file, exc, outcome, sinceTerminal>>

\* for _ in range(1000000): pass
CpuBurnSpin(m, w) ==
    /\ workers[m][w] = "spin"
    /\ workers' = [workers EXCEPT ![m][w] = "check"]
    /\ UNCHANGED <<experiments, running, pc, cur, timer, cpu_left, memory_hog,
                   temp_file, exc, outcome, sinceTerminal>>

\* every thread.join() has returned
CpuJoin(m) ==
    /\ pc[m] = "cpu_join"
    /\ Alive(m) = {}
    /\ workers' = [workers EXCEPT ![m] = NoWorkers]
    /\ cpu_left' = [cpu_left EXCEPT ![m] = 0]
    /\ Log(m, "completed")
    /\ EnterSleep(m)
    /\ EndRun(m)
    /\ UNCHANGED <<experiments, running, cur, memory_hog, temp_file, exc>>

\* ------------------------------------------------------- _memory_stress
\* an allocation loop without the finally clause: a failed allocation
\* leaves the blocks allocated so far in place
MemAllocLeak(m) ==
    /\ pc[m] = "mem_alloc"
    /\ LET mb == ParamGet(Experiment(m).parameters, "mb", DefaultMb) IN
       IF memory_hog[m] < mb
       THEN \/ /\ memory_hog' = [memory_hog EXCEPT ![m] = @ + 1]
               /\ UNCHANGED <<pc, timer, exc, outcome>>
            \/ /\ exc' = [exc EXCEPT ![m] = "error"]
               /\ Unwind(m, "error")
               /\ UNCHANGED <<memory_hog, outcome>>
       ELSE /\ pc' = [pc EXCEPT ![m] = "mem_hold"]
            /\ timer' = [timer EXCEPT ![m] = Experiment(m).duration]
            /\ UNCHANGED <<memory_hog, exc, outcome>>
    /\ UNCHANGED <<experiments, running, cur, workers, cpu_left, temp_file,
                   sinceTerminal>>

\* an allocation loop that runs once more than range(mb_to_allocate)
MemAllocOneMore(m) ==
    /\ pc[m] = "mem_alloc"
    /\ LET mb == ParamGet(Experiment(m).parameters, "mb", DefaultMb) IN
       IF memory_hog[m] <= mb
       THEN \/ /\ memory_hog' = [memory_hog EXCEPT ![m] = @ + 1]
               /\ UNCHANGED <<pc, timer, exc, outcome>>
            \/ /\ memory_hog' = [memory_hog EXCEPT ![m] = 0]
               /\ Log(m, "completed")
               /\ exc' = [exc EXCEPT ![m] = "error"]
               /\ Unwind(m, "error")
       ELSE /\ pc' = [pc EXCEPT ![m] = "mem_hold"]
            /\ timer' = [timer EXCEPT ![m] = Experiment(m).duration]
            /\ UNCHANGED <<memory_hog, exc, outcome>>
    /\ UNCHANGED <<experiments, running, cur, workers, cpu_left, temp_file,
                   sinceTerminal>>

\* one pass of the allocation loop; bytearray(1024 * 1024) may raise
\* MemoryError, and then the finally clause runs
MemAlloc(m) ==
    /\ pc[m] = "mem_alloc"
    /\ LET mb == ParamGet(Experiment(m).parameters, "mb", DefaultMb) IN
       IF memory_hog[m] < mb
       THEN \/ /\ memory_hog' = [memory_hog EXCEPT ![m] = @ + 1]
               /\ UNCHANGED <<pc, timer, exc, outcome>>
            \/ /\ memory_hog' = [memory_hog EXCEPT ![m] = 0]
               /\ Log(m, "completed")
               /\ exc' = [exc EXCEPT ![m] = "error"]
               /\ Unwind(m, "error")
       ELSE /\ pc' = [pc EXCEPT ![m] = "mem_hold"]
            /\ timer' = [timer EXCEPT ![m] = Experiment(m).duration]
            /\ UNCHANGED <<memory_hog, exc, outcome>>
    /\ UNCHANGED <<experiments, running, cur, workers, cpu_left, temp_file,
                   sinceTerminal>>

\* time.sleep(experiment.duration) returns; finally: memory_hog.clear()
MemRelease(m) ==
    /\ pc[m] = "mem_hold"
    /\ timer[m] = 0
    /\ memory_hog' = [memory_hog EXCEPT ![m] = 0]
    /\ Log(m, "completed")
    /\ EnterSleep(m)
    /\ EndRun(m)
    /\ UNCHANGED <<experiments, running, cur, workers, cpu_left, temp_file, exc>>

\* ----------------------------------------------------------- _disk_fill
\* open(temp_file, "wb") and f.write(...): the write succeeds, or open
\* fails (nothing is created), or the write fails (the file is left behind)
DiskWrite(m) ==
    /\ pc[m] = "disk_write"
    /\ \/ /\ temp_file' = TRUE
          /\ pc' = [pc EXCEPT ![m] = "disk_hold"]
          /\ timer' = [timer EXCEPT ![m] = Experiment(m).duration]
          /\ UNCHANGED exc
       \/ /\ temp_file' \in {temp_file, TRUE}
          /\ pc' = [pc EXCEPT ![m] = "disk_exists"]
          /\ exc' = [exc EXCEPT ![m] = "error"]
          /\ UNCHANGED timer
    /\ UNCHANGED <<experiments, running, cur, workers, cpu_left, memory_hog,
                   outcome, sinceTerminal>>

\* time.sleep(experiment.duration) returns: the finally clause starts
DiskHoldDone(m) ==
    /\ pc[m] = "disk_hold"
    /\ timer[m] = 0
    /\ pc' = [pc EXCEPT ![m] = "disk_exists"]
    /\ UNCHANGED <<experiments, running, cur, timer, workers, cpu_left,
                   memory_hog, temp_file, exc, outcome, sinceTerminal>>

\* finally: if os.path.exists(temp_file)
DiskExists(m) ==
    /\ pc[m] = "disk_exists"
    /\ IF temp_file
       THEN /\ pc' = [pc EXCEPT ![m] = "disk_remove"]
            /\ UNCHANGED <<timer, exc, outcome, sinceTerminal>>
       ELSE /\ Log(m, "completed")
            /\ Unwind(m, exc[m])
            /\ IF exc[m] = "error" THEN UNCHANGED <<exc, sinceTerminal>>
               ELSE /\ exc' = [exc EXCEPT ![m] = "none"]
                    /\ EndRun(m)
    /\ UNCHANGED <<experiments, running, cur, workers, cpu_left, memory_hog,
                   temp_file>>

\* finally: os.remove(temp_file); it raises FileNotFoundError when the file
\* has gone since the test, and that exception replaces the one in flight
DiskRemove(m) ==
    /\ pc[m] = "disk_remove"
    /\ IF temp_file
       THEN /\ temp_file' = FALSE
            /\ Log(m, "completed")
            /\ Unwind(m, exc[m])
            /\ IF exc[m] = "error" THEN UNCHANGED <<exc, sinceTerminal>>
               ELSE /\ exc' = [exc EXCEPT ![m] = "none"]
                    /\ EndRun(m)
       ELSE /\ exc' = [exc EXCEPT ![m] = "error"]
            /\ Unwind(m, "error")
            /\ UNCHANGED <<temp_file, outcome, sinceTerminal>>
    /\ UNCHANGED <<experiments, running, cur, workers, cpu_left, memory_hog>>

\* ------------------ _network_latency, _service_kill, _process_hang
\* time.sleep(...) returns and the completion is logged
HoldDone(m) ==
    /\ pc[m] = "hold"
    /\ timer[m] = 0
    /\ Log(m, "completed")
    /\ EnterSleep(m)
    /\ EndRun(m)
    /\ UNCHANGED <<experiments, running, cur, workers, cpu_left, memory_hog,
                   temp_file, exc>>

\* ------------------------------------------------------------- signals
\* SIGINT: KeyboardInterrupt is raised in the thread that runs start(), at
\* the call it is blocked in; the fault's finally clause runs, `except
\* KeyboardInterrupt` of start() logs, and its finally clause calls stop()
KeyboardInterrupt(m) ==
    /\ pc[m] \in {"sleep", "hold", "cpu_join", "mem_alloc", "mem_hold", "disk_hold"}
    /\ exc[m] = "none"
    /\ IF pc[m] = "disk_hold"
       THEN /\ pc' = [pc EXCEPT ![m] = "disk_exists"]
            /\ exc' = [exc EXCEPT ![m] = "kbd"]
            /\ UNCHANGED <<memory_hog, outcome, sinceTerminal>>
       ELSE /\ pc' = [pc EXCEPT ![m] = "stop"]
            /\ memory_hog' = [memory_hog EXCEPT ![m] = 0]
            /\ outcome' = [outcome EXCEPT ![m] =
                  @ \cup {"stopped_by_user"}
                    \cup (IF pc[m] \in {"mem_alloc", "mem_hold"}
                          THEN {"completed"} ELSE {})]
            /\ IF pc[m] = "sleep" THEN UNCHANGED sinceTerminal ELSE EndRun(m)
            /\ UNCHANGED exc
    /\ timer' = [timer EXCEPT ![m] = 0]
    /\ UNCHANGED <<experiments, running, cur, workers, cpu_left, temp_file>>

\* the process still exists: the main thread or a worker thread is running
ProcessRunning(m) ==
    /\ pc[m] \notin {"init", "killed"}
    /\ pc[m] = "returned" => Alive(m) # {}

\* SIGTERM, as sent by ChaosDemo.stop_all (process.terminate()): the process
\* ends at once, no finally clause runs; its threads and memory go with it,
\* files stay
Terminate(m) ==
    /\ ProcessRunning(m)
    /\ pc' = [pc EXCEPT ![m] = "killed"]
    /\ running' = [running EXCEPT ![m] = FALSE]
    /\ timer' = [timer EXCEPT ![m] = 0]
    /\ workers' = [workers EXCEPT ![m] = NoWorkers]
    /\ cpu_left' = [cpu_left EXCEPT ![m] = 0]
    /\ memory_hog' = [memory_hog EXCEPT ![m] = 0]
    /\ exc' = [exc EXCEPT ![m] = "none"]
    /\ IF Active(m) THEN EndRun(m) ELSE UNCHANGED sinceTerminal
    /\ UNCHANGED <<experiments, cur, temp_file, outcome>>

\* ---------------------------------------------------------------- time
Dec(n) == IF n > 0 THEN n - 1 ELSE 0

\* one second passes; a sleep that is over is served first
Advance ==
    /\ \A m \in Monkeys : pc[m] \in SleepLocations => timer[m] > 0
    /\ timer' = [m \in Monkeys |-> Dec(timer[m])]
    /\ cpu_left' = [m \in Monkeys |-> Dec(cpu_left[m])]
    /\ sinceTerminal' = [t \in Targets |->
                            IF sinceTerminal[t] < Interval
                            THEN sinceTerminal[t] + 1 ELSE Interval]
    /\ UNCHANGED <<experiments, running, pc, cur, workers, memory_hog,
                   temp_file, exc, outcome>>

\* a tick begins: no sample has been taken during the run it may start
RunStarts(m) == run_unreachable' = [run_unreachable EXCEPT ![m] = 0]

\* the steps of the chaos_monkey.py processes of M, and of time, but for
\* the pass of the scheduler loop
StepsOf(M) ==
    \/ \E e \in ExperimentChoices : add_experiment(e) /\ UNCHANGED notChaosVars
    \/ \E m \in M : start(m) /\ UNCHANGED notChaosVars
    \/ \E m \in M : WakeUp(m) /\ UNCHANGED notChaosVars
    \/ \E m \in M : LoopExit(m) /\ UNCHANGED notChaosVars
    \/ \E m \in M : StopFinally(m) /\ UNCHANGED notChaosVars
    \/ \E m \in M : stop(m) /\ UNCHANGED notChaosVars
    \/ \E m \in M : ExceptHandler(m) /\ UNCHANGED notChaosVars
    \/ \E m \in M, w \in Workers : CpuBurnCheck(m, w) /\ UNCHANGED notChaosVars
    \/ \E m \in M, w \in Workers : CpuBurnSpin(m, w) /\ UNCHANGED notChaosVars
    \/ \E m \in M : CpuJoin(m) /\ UNCHANGED notChaosVars
    \/ \E m \in M : MemAlloc(m) /\ UNCHANGED notChaosVars
    \/ \E m \in M : MemRelease(m) /\ UNCHANGED notChaosVars
    \/ \E m \in M : DiskWrite(m) /\ UNCHANGED notChaosVars
    \/ \E m \in M : DiskHoldDone(m) /\ UNCHANGED notChaosVars
    \/ \E m \in M : DiskExists(m) /\ UNCHANGED notChaosVars
    \/ \E m \in M : DiskRemove(m) /\ UNCHANGED notChaosVars
    \/ \E m \in M : HoldDone(m) /\ UNCHANGED notChaosVars
    \/ \E m \in M : KeyboardInterrupt(m) /\ UNCHANGED notChaosVars
    \/ \E m \in M : Terminate(m) /\ UNCHANGED notChaosVars
    \/ Advance /\ UNCHANGED notChaosVars

\* the steps of the chaos_monkey.py processes of M, and of time
NextOf(M) ==
    \/ \E m \in M : SchedulerTick(m) /\ RunStarts(m) /\ UNCHANGED notTickVars
    \/ StepsOf(M)

Next == NextOf(Monkeys)

Init == ChaosInit /\ ProbeInit /\ MonitorInit /\ LoadInit /\ ReleaseInit /\ DemoInit /\ ChoiceInit /\ RunnerInit /\ DashboardInit /\ AppInit

Spec == Init /\ [][Next]_vars

\* one chaos_monkey.py process alone, its threads scheduled fairly: a worker
\* thread that can take a step takes it, and a join that can return returns.
\* Nothing forces time to pass.
MainMonkey == 1

SoloNext == NextOf({MainMonkey})

SoloFairness ==
    /\ \A w \in Workers :
          /\ WF_vars(CpuBurnCheck(MainMonkey, w) /\ UNCHANGED notChaosVars)
          /\ WF_vars(CpuBurnSpin(MainMonkey, w) /\ UNCHANGED notChaosVars)
    /\ WF_vars(CpuJoin(MainMonkey) /\ UNCHANGED notChaosVars)

SpecSolo == Init /\ [][SoloNext]_vars /\ SoloFairness

\* one chaos_monkey.py process whose thread can lose the processor between
\* reading `self.running` and running the body of the loop, while another
\* thread calls stop()
StopNext ==
    \/ LoopCheck(MainMonkey) /\ UNCHANGED notChaosVars
    \/ LoopBody(MainMonkey) /\ RunStarts(MainMonkey) /\ UNCHANGED notTickVars
    \/ StepsOf({MainMonkey})

SpecStop == Init /\ [][StopNext]_vars

\* one chaos_monkey.py process whose script may also register an experiment
\* with parameters its fault cannot run with
InvalidNext ==
    \/ SoloNext
    \/ \E e \in InvalidChoices : add_experiment(e) /\ UNCHANGED notChaosVars

SpecInvalid == Init /\ [][InvalidNext]_vars

\* =================================================== the health probes
\* what requests.get(url, timeout=5) does: it returns a response with a
\* status code, or raises requests.exceptions.Timeout ("timeout") or
\* requests.exceptions.ConnectionError ("refused")
StatusCodes == {200, 201, 202, 204, 301, 302, 400, 404, 500, 503}
Failures == {"timeout", "refused"}
Responses == {[kind |-> "response", status_code |-> c] : c \in StatusCodes}
             \cup {[kind |-> f, status_code |-> 0] : f \in Failures}

\* a handler for requests.exceptions.Timeout alone
TimeoutOnly == {"timeout"}

\* the failures that are instances of requests.exceptions.RequestException
RequestException == {"timeout", "refused"}
\* the failures that are instances of Exception
AnyException == {"timeout", "refused"}

Raised == [status |-> "raised"]

\* SystemMonitor.collect_app_metrics: GET /health, then GET /stats
collect_app_metrics(h, s) ==
    LET failure == IF h.kind # "response" THEN h.kind
                   ELSE IF s.kind # "response" THEN s.kind ELSE "none"
    IN  IF failure = "none"
        THEN [status_code |-> h.status_code,
              status |-> IF h.status_code = 200 THEN "healthy" ELSE "unknown",
              stats |-> IF s.status_code = 200 THEN "data" ELSE "empty",
              connectivity |-> TRUE]
        ELSE IF failure \in RequestException
        THEN [status_code |-> 0, status |-> "unreachable", stats |-> "empty",
              connectivity |-> FALSE]
        ELSE Raised

\* StreamlitChaosDemo.check_demo_app_status: GET /health
check_demo_app_status(h) ==
    IF h.kind = "response"
    THEN IF h.status_code = 200 THEN [status |-> "healthy"]
         ELSE [status |-> "degraded"]
    ELSE IF h.kind \in AnyException THEN [status |-> "unreachable"]
    ELSE Raised

\* the monitoring loop takes one application sample
MonitorProbe(h, s) ==
    /\ probe_pc = "idle"
    /\ prober' = "monitor"
    /\ health_response' = h
    /\ stats_response' = IF h.kind = "response" THEN s ELSE NoResponse
    /\ sample' = collect_app_metrics(h, s)
    /\ probe_pc' = IF sample' = Raised THEN "raised" ELSE "returned"
    /\ UNCHANGED notProbeVars

\* the dashboard checks the application
DashboardProbe(h) ==
    /\ probe_pc = "idle"
    /\ prober' = "dashboard"
    /\ health_response' = h
    /\ stats_response' = NoResponse
    /\ sample' = check_demo_app_status(h)
    /\ probe_pc' = IF sample' = Raised THEN "raised" ELSE "returned"
    /\ UNCHANGED notProbeVars

\* the caller has used the sample; the next probe can start
ProbeConsumed ==
    /\ probe_pc = "returned"
    /\ probe_pc' = "idle"
    /\ prober' = "none"
    /\ health_response' = NoResponse
    /\ stats_response' = NoResponse
    /\ sample' = NoSample
    /\ UNCHANGED notProbeVars

ProbeNext ==
    \/ \E h \in Responses, s \in Responses : MonitorProbe(h, s)
    \/ \E h \in Responses : DashboardProbe(h)
    \/ ProbeConsumed

SpecProbe == Init /\ [][ProbeNext]_vars

\* ================================================ the monitoring loop
\* a trim that keeps the oldest entries
KeepFirst(history) ==
    IF Len(history) > HistoryLimit
    THEN SubSeq(history, 1, HistoryLimit) ELSE history

\* if len(self.metrics_history) > 100:
\*     self.metrics_history = self.metrics_history[-100:]
KeepLast(history) ==
    IF Len(history) > HistoryLimit
    THEN SubSeq(history, Len(history) - HistoryLimit + 1, Len(history))
    ELSE history

\* the application part of the samples the loop can collect
AppSamples == {collect_app_metrics(h, s) : h, s \in Responses} \ {Raised}

\* _check_alerts, its application alert: `if not app.get('connectivity')`.
\* Every alert is a line of text that _print_current_status prints.
check_alerts(app) ==
    IF ~app.connectivity THEN {"Application is unreachable"} ELSE {}

\* start_monitoring: the flag is set and the thread of monitor_loop starts
start_monitoring ==
    /\ mon_pc = "init"
    /\ monitoring' = TRUE
    /\ mon_pc' = "loop"
    /\ UNCHANGED <<metrics_history, collected, alerts, run_unreachable>>
    /\ UNCHANGED notMonitorVars

\* `while self.monitoring` reads True and the metrics are collected: the
\* sample is appended, or the collection raises and `except Exception`
\* goes to its time.sleep(interval)
MonitorCollect(cap) ==
    /\ mon_pc = "loop"
    /\ monitoring
    /\ collected < cap
    /\ \/ \E connectivity \in {app.connectivity : app \in AppSamples} :
             /\ collected' = collected + 1
             /\ metrics_history' = Append(metrics_history, collected + 1)
             /\ alerts' = check_alerts([connectivity |-> connectivity])
             /\ run_unreachable' =
                   [m \in Monkeys |->
                       IF Active(m) /\ ~connectivity
                       THEN run_unreachable[m] + 1 ELSE 0]
             /\ mon_pc' = "appended"
       \/ /\ mon_pc' = "sleep"
          /\ UNCHANGED <<metrics_history, collected, alerts, run_unreachable>>
    /\ UNCHANGED monitoring
    /\ UNCHANGED notMonitorVars

\* the history is cut to its last entries, the status is printed and the
\* thread goes to time.sleep(interval)
MonitorTrim ==
    /\ mon_pc = "appended"
    /\ metrics_history' = KeepLast(metrics_history)
    /\ mon_pc' = "sleep"
    /\ UNCHANGED <<monitoring, collected, alerts, run_unreachable>>
    /\ UNCHANGED notMonitorVars

\* time.sleep(interval) returns
MonitorWake ==
    /\ mon_pc = "sleep"
    /\ mon_pc' = "loop"
    /\ UNCHANGED <<monitoring, metrics_history, collected, alerts, run_unreachable>>
    /\ UNCHANGED notMonitorVars

\* `while self.monitoring` reads False: monitor_loop returns
MonitorExit ==
    /\ mon_pc = "loop"
    /\ ~monitoring
    /\ mon_pc' = "exited"
    /\ UNCHANGED <<monitoring, metrics_history, collected, alerts, run_unreachable>>
    /\ UNCHANGED notMonitorVars

\* stop_monitoring, called by the main thread on Ctrl+C
stop_monitoring ==
    /\ monitoring
    /\ monitoring' = FALSE
    /\ UNCHANGED <<mon_pc, metrics_history, collected, alerts, run_unreachable>>
    /\ UNCHANGED notMonitorVars

MonitorNextUpTo(cap) ==
    \/ start_monitoring
    \/ MonitorCollect(cap)
    \/ MonitorTrim
    \/ MonitorWake
    \/ MonitorExit
    \/ stop_monitoring

MonitorNext == MonitorNextUpTo(MaxSamples)

SpecMonitor == Init /\ [][MonitorNext]_vars

\* the monitor watches the application while one chaos_monkey.py process
\* runs its experiments
WatchNext ==
    \/ SoloNext
    \/ MonitorNextUpTo(MaxWatchSamples)

SpecWatch == Init /\ [][WatchNext]_vars

\* ==================================================== the load tester
\* _make_request in worker thread w.  `self.stats[key] += 1` reads the
\* counter and writes it back in two steps; no lock is held, so another
\* thread can run between them.

\* the loop condition of _worker_thread:
\* `while time.time() < end_time and self.running`
WorkerCondition == lt_left > 0 /\ lt_running

\* the loop condition reads True; requests.get(url, timeout=10) returns or
\* raises
LoadRequest(w, response) ==
    /\ lt_pc[w] = "idle"
    /\ WorkerCondition
    /\ made < MaxRequests
    /\ made' = made + 1
    /\ lt_result' = [lt_result EXCEPT ![w] =
          IF response.kind = "response" /\ response.status_code < 400
          THEN "success" ELSE "failure"]
    /\ lt_pc' = [lt_pc EXCEPT ![w] = "load_total"]
    /\ UNCHANGED <<stats, lt_reg, lt_running, lt_left, lt_main, lt_finals>>
    /\ UNCHANGED notLoadVars

\* self.stats['total_requests'] += 1: the read
LoadTotal(w) ==
    /\ lt_pc[w] = "load_total"
    /\ lt_reg' = [lt_reg EXCEPT ![w] = stats.total_requests]
    /\ lt_pc' = [lt_pc EXCEPT ![w] = "store_total"]
    /\ UNCHANGED <<stats, lt_result, made, lt_running, lt_left, lt_main, lt_finals>>
    /\ UNCHANGED notLoadVars

\* self.stats['total_requests'] += 1: the write
StoreTotal(w) ==
    /\ lt_pc[w] = "store_total"
    /\ stats' = [stats EXCEPT !.total_requests = lt_reg[w] + 1]
    /\ lt_pc' = [lt_pc EXCEPT ![w] = "load_count"]
    /\ UNCHANGED <<lt_reg, lt_result, made, lt_running, lt_left, lt_main, lt_finals>>
    /\ UNCHANGED notLoadVars

\* self.stats['successful_requests'] += 1 or
\* self.stats['failed_requests'] += 1: the read
LoadCount(w) ==
    /\ lt_pc[w] = "load_count"
    /\ lt_reg' = [lt_reg EXCEPT ![w] =
          IF lt_result[w] = "success" THEN stats.successful_requests
          ELSE stats.failed_requests]
    /\ lt_pc' = [lt_pc EXCEPT ![w] = "store_count"]
    /\ UNCHANGED <<stats, lt_result, made, lt_running, lt_left, lt_main, lt_finals>>
    /\ UNCHANGED notLoadVars

\* the write, and _make_request returns its result
StoreCount(w) ==
    /\ lt_pc[w] = "store_count"
    /\ stats' = IF lt_result[w] = "success"
                THEN [stats EXCEPT !.successful_requests = lt_reg[w] + 1]
                ELSE [stats EXCEPT !.failed_requests = lt_reg[w] + 1]
    /\ lt_pc' = [lt_pc EXCEPT ![w] = "idle"]
    /\ lt_result' = [lt_result EXCEPT ![w] = "none"]
    /\ UNCHANGED <<lt_reg, made, lt_running, lt_left, lt_main, lt_finals>>
    /\ UNCHANGED notLoadVars

\* the loop condition reads False: _worker_thread returns
WorkerExit(w) ==
    /\ lt_pc[w] = "idle"
    /\ ~WorkerCondition
    /\ lt_pc' = [lt_pc EXCEPT ![w] = "exited"]
    /\ UNCHANGED <<stats, lt_reg, lt_result, made, lt_running, lt_left, lt_main,
                   lt_finals>>
    /\ UNCHANGED notLoadVars

\* one second of the load test passes
LoadAdvance ==
    /\ lt_left > 0
    /\ lt_left' = lt_left - 1
    /\ UNCHANGED <<stats, lt_pc, lt_reg, lt_result, made, lt_running, lt_main,
                   lt_finals>>
    /\ UNCHANGED notLoadVars

AllExited == \A w \in LoadWorkers : lt_pc[w] = "exited"

\* `while any(t.is_alive() for t in threads)` reads False
MonitorProgressDone ==
    /\ lt_main = "monitor"
    /\ AllExited
    /\ lt_main' = "join"
    /\ UNCHANGED <<stats, lt_pc, lt_reg, lt_result, made, lt_running, lt_left,
                   lt_finals>>
    /\ UNCHANGED notLoadVars

\* `except KeyboardInterrupt: self.running = False`
LoadInterrupt ==
    /\ lt_main = "monitor"
    /\ lt_running' = FALSE
    /\ lt_main' = "join"
    /\ UNCHANGED <<stats, lt_pc, lt_reg, lt_result, made, lt_left, lt_finals>>
    /\ UNCHANGED notLoadVars

\* a main thread that goes on without waiting for the workers
JoinNone ==
    /\ lt_main = "join"
    /\ lt_main' = "final"
    /\ UNCHANGED <<stats, lt_pc, lt_reg, lt_result, made, lt_running, lt_left,
                   lt_finals>>
    /\ UNCHANGED notLoadVars

\* `for thread in threads: thread.join()`: every join has returned
JoinAll ==
    /\ lt_main = "join"
    /\ AllExited
    /\ lt_main' = "final"
    /\ UNCHANGED <<stats, lt_pc, lt_reg, lt_result, made, lt_running, lt_left,
                   lt_finals>>
    /\ UNCHANGED notLoadVars

\* the attributes a LoadTester object can be called on
LoadTesterMethods ==
    {"__init__", "_weighted_choice", "_make_request", "_worker_thread",
     "start_load_test", "_print_stats", "_create_progress_bar",
     "_print_final_stats", "_generate_load_test_graphs"}

\* self._print_final_stats() and then self._plot_results(), which raises
\* AttributeError when the class has no such method
FinalStats ==
    /\ lt_main = "final"
    /\ lt_finals' = lt_finals + 1
    /\ lt_main' = IF "_plot_results" \in LoadTesterMethods
                  THEN "returned" ELSE "raised"
    /\ UNCHANGED <<stats, lt_pc, lt_reg, lt_result, made, lt_running, lt_left>>
    /\ UNCHANGED notLoadVars

LoadNext ==
    \/ \E w \in LoadWorkers, response \in Responses : LoadRequest(w, response)
    \/ \E w \in LoadWorkers : LoadTotal(w)
    \/ \E w \in LoadWorkers : StoreTotal(w)
    \/ \E w \in LoadWorkers : LoadCount(w)
    \/ \E w \in LoadWorkers : StoreCount(w)
    \/ \E w \in LoadWorkers : WorkerExit(w)
    \/ LoadAdvance
    \/ MonitorProgressDone
    \/ LoadInterrupt
    \/ JoinAll
    \/ FinalStats

SpecLoad == Init /\ [][LoadNext]_vars

\* the load test with its threads scheduled fairly and time passing: a
\* thread that can take a step takes it.  Nothing forces a request or an
\* interrupt.
LoadFairness ==
    /\ \A w \in LoadWorkers :
          /\ WF_vars(LoadTotal(w))
          /\ WF_vars(StoreTotal(w))
          /\ WF_vars(LoadCount(w))
          /\ WF_vars(StoreCount(w))
          /\ WF_vars(WorkerExit(w))
    /\ WF_vars(LoadAdvance)
    /\ WF_vars(MonitorProgressDone)
    /\ WF_vars(JoinAll)
    /\ WF_vars(FinalStats)

SpecLoadFair == Init /\ [][LoadNext]_vars /\ LoadFairness

\* ============================================ the cleanup of a fault
\* The finally clauses of _memory_stress and _disk_fill, as functions of
\* what the fault holds, applied one after the other by one thread.

\* finally: memory_hog.clear()
ReleaseMemory(hog) == 0

\* a cleanup that deletes without the test: os.remove raises
\* FileNotFoundError when the file is not there
ReleaseDiskUnguarded(file) == [file |-> FALSE, raised |-> ~file]

\* finally: if os.path.exists(temp_file): os.remove(temp_file)
ReleaseDisk(file) ==
    IF file THEN [file |-> FALSE, raised |-> FALSE]
    ELSE [file |-> file, raised |-> FALSE]

\* the try block has run: a MemoryStress of the default size has allocated
\* some or all of its chunks, or a DiskFill has or has not created its file
Acquire(hog, file) ==
    /\ rel_pc = "idle"
    /\ rel_pc' = "held"
    /\ rel_hog' = hog
    /\ rel_file' = file
    /\ UNCHANGED <<rel_count, rel_raised>>
    /\ UNCHANGED notReleaseVars

\* the finally clause runs
Release ==
    /\ rel_pc \in {"held", "released"}
    /\ rel_count < MaxReleases
    /\ rel_pc' = "released"
    /\ rel_hog' = ReleaseMemory(rel_hog)
    /\ rel_file' = ReleaseDisk(rel_file).file
    /\ rel_raised' = ReleaseDisk(rel_file).raised
    /\ rel_count' = rel_count + 1
    /\ UNCHANGED notReleaseVars

ReleaseNext ==
    \/ \E hog \in 0..DefaultMb, file \in BOOLEAN : Acquire(hog, file)
    \/ Release

SpecRelease == Init /\ [][ReleaseNext]_vars

\* ===================================== the short demo and its chaos script
\* run_short_demo of test_complete_demo.py starts the demo application, the
\* monitor and a load test in the background, runs the chaos script
\* temp_chaos_test.py to its end, lets everything run, and stops what it
\* started.  Time is left out: a sleep is a step.

\* the attributes a ChaosMonkey object can be called on
ChaosMonkeyMethods ==
    {"__init__", "add_experiment", "start", "stop", "_execute_experiment",
     "_cpu_stress", "_memory_stress", "_network_latency", "_service_kill",
     "_disk_fill", "_process_hang"}

\* monkey.<name>: AttributeError for a name the class does not define
HasMethod(name) == name \in ChaosMonkeyMethods

\* process.terminate(), process.wait(timeout), process.kill() on a process
\* whose poll() is None
StopChild(state) == IF state = "running" THEN "stopped" ELSE state

\* the loop over `processes` that stops each tracked process still running
StopTracked ==
    [c \in DemoChildren |->
        IF \E i \in 1..Len(sd_processes) : sd_processes[i] = c
        THEN StopChild(sd_child[c]) ELSE sd_child[c]]

\* run_command(..., background=True): Popen, two seconds, poll(); the
\* process is returned when it is still running and None when it is not
run_command(c, started) ==
    /\ sd_child' = [sd_child EXCEPT ![c] = IF started THEN "running" ELSE "exited"]
    /\ sd_processes' = IF started THEN Append(sd_processes, c) ELSE sd_processes

\* step 1: without the demo application run_short_demo returns
StartDemoApp ==
    /\ sd_pc = "start_app"
    /\ \E started \in BOOLEAN :
          /\ run_command("Demo App", started)
          /\ sd_pc' = IF started THEN "wait_app" ELSE "returned"
    /\ UNCHANGED <<sd_polls, chaos_output, qc_pc, qc_i>>
    /\ UNCHANGED notDemoVars

\* one pass of the loop of wait_for_app; `if not wait_for_app(): return`
WaitForApp ==
    /\ sd_pc = "wait_app"
    /\ \E response \in Responses :
          /\ response.kind = "response" => sd_child["Demo App"] = "running"
          /\ IF response.kind = "response" /\ response.status_code = 200
             THEN sd_pc' = "start_monitor" /\ UNCHANGED sd_polls
             ELSE /\ sd_polls' = sd_polls + 1
                  /\ sd_pc' = IF sd_polls + 1 >= ReadyPolls
                              THEN "returned" ELSE "wait_app"
    /\ UNCHANGED <<sd_child, sd_processes, chaos_output, qc_pc, qc_i>>
    /\ UNCHANGED notDemoVars

\* steps 2 and 3: the monitor and the load test, tracked when they started
StartBackground(c, at, then) ==
    /\ sd_pc = at
    /\ \E started \in BOOLEAN : run_command(c, started)
    /\ sd_pc' = then
    /\ UNCHANGED <<sd_polls, chaos_output, qc_pc, qc_i>>
    /\ UNCHANGED notDemoVars

StartMonitor == StartBackground("System Monitor", "start_monitor", "start_load")

StartLoadTest == StartBackground("Load Test", "start_load", "run_chaos")

\* step 4: run_command(["temp_chaos_test.py"], background=False) starts the
\* script and blocks in communicate()
RunChaos ==
    /\ sd_pc = "run_chaos"
    /\ sd_child' = [sd_child EXCEPT !["Chaos Experiments"] = "running"]
    /\ qc_pc' = "loop"
    /\ qc_i' = 0
    /\ sd_pc' = "chaos_wait"
    /\ UNCHANGED <<sd_processes, sd_polls, chaos_output>>
    /\ UNCHANGED notDemoVars

\* temp_chaos_test.py: `for i in range(3)`: monkey.cpu_stress_test(...),
\* then time.sleep(10); after the loop the script prints that it completed.
\* An exception that nothing catches ends the script with a traceback.
QuickChaosStep ==
    /\ sd_child["Chaos Experiments"] = "running"
    /\ CASE qc_pc = "loop" /\ qc_i < QuickExperiments ->
               IF HasMethod("cpu_stress_test")
               THEN /\ qc_pc' = "wait"
                    /\ UNCHANGED <<qc_i, sd_child>>
               ELSE /\ qc_pc' = "raised"
                    /\ sd_child' = [sd_child EXCEPT !["Chaos Experiments"] = "exited"]
                    /\ UNCHANGED qc_i
         [] qc_pc = "loop" /\ qc_i >= QuickExperiments ->
               /\ qc_pc' = "completed"
               /\ sd_child' = [sd_child EXCEPT !["Chaos Experiments"] = "exited"]
               /\ UNCHANGED qc_i
         [] qc_pc = "wait" ->
               /\ qc_pc' = "loop"
               /\ qc_i' = qc_i + 1
               /\ UNCHANGED sd_child
         [] OTHER -> FALSE
    /\ UNCHANGED <<sd_pc, sd_processes, sd_polls, chaos_output>>
    /\ UNCHANGED notDemoVars

\* communicate() returns: the script's output when its return code is 0
ChaosReturns ==
    /\ sd_pc = "chaos_wait"
    /\ sd_child["Chaos Experiments"] # "running"
    /\ chaos_output' = IF qc_pc = "completed" THEN "output" ELSE "failed"
    /\ sd_pc' = "let_run"
    /\ UNCHANGED <<sd_child, sd_processes, sd_polls, qc_pc, qc_i>>
    /\ UNCHANGED notDemoVars

\* time.sleep(90)
LetRun ==
    /\ sd_pc = "let_run"
    /\ sd_pc' = "stop_all"
    /\ UNCHANGED <<sd_child, sd_processes, sd_polls, chaos_output, qc_pc, qc_i>>
    /\ UNCHANGED notDemoVars

\* step 5 and what follows it: every tracked process is stopped, the
\* results are listed, and run_short_demo returns
StopProcesses ==
    /\ sd_pc = "stop_all"
    /\ sd_child' = StopTracked
    /\ sd_pc' = "returned"
    /\ UNCHANGED <<sd_processes, sd_polls, chaos_output, qc_pc, qc_i>>
    /\ UNCHANGED notDemoVars

\* a background child ends on its own
ChildExits(c) ==
    /\ sd_child[c] = "running"
    /\ sd_child' = [sd_child EXCEPT ![c] = "exited"]
    /\ UNCHANGED <<sd_pc, sd_processes, sd_polls, chaos_output, qc_pc, qc_i>>
    /\ UNCHANGED notDemoVars

\* `except KeyboardInterrupt`: the tracked processes are stopped
DemoInterrupt ==
    /\ sd_pc # "returned"
    /\ sd_child' = StopTracked
    /\ sd_pc' = "returned"
    /\ UNCHANGED <<sd_processes, sd_polls, chaos_output, qc_pc, qc_i>>
    /\ UNCHANGED notDemoVars

DemoNext ==
    \/ StartDemoApp
    \/ WaitForApp
    \/ StartMonitor
    \/ StartLoadTest
    \/ RunChaos
    \/ QuickChaosStep
    \/ ChaosReturns
    \/ LetRun
    \/ StopProcesses
    \/ \E c \in BackgroundChildren : ChildExits(c)
    \/ DemoInterrupt

SpecDemo == Init /\ [][DemoNext]_vars

\* ================================= the endpoint choice of the load tester
\* self.endpoints, in the order of the list
Endpoints ==
    << [path |-> "/", weight |-> 30],
       [path |-> "/health", weight |-> 20],
       [path |-> "/api/data", weight |-> 25],
       [path |-> "/api/slow", weight |-> 5],
       [path |-> "/api/memory-intensive", weight |-> 8],
       [path |-> "/api/cpu-intensive", weight |-> 7],
       [path |-> "/api/database", weight |-> 15],
       [path |-> "/stats", weight |-> 10] >>

\* sum(endpoint['weight'] for endpoint in the first n endpoints)
RECURSIVE WeightOfFirst(_)
WeightOfFirst(n) ==
    IF n = 0 THEN 0 ELSE WeightOfFirst(n - 1) + Endpoints[n].weight

TotalWeight == WeightOfFirst(Len(Endpoints))

\* random.randint(1, total_weight): both ends included
Draws == 1..TotalWeight

\* the loop with the comparison turned strict: `if rand < current_weight`
RECURSIVE ChoiceLoopStrict(_, _, _)
ChoiceLoopStrict(rand, i, current_weight) ==
    IF i > Len(Endpoints)
    THEN [path |-> Endpoints[1].path, fallback |-> TRUE]
    ELSE IF rand < current_weight + Endpoints[i].weight
         THEN [path |-> Endpoints[i].path, fallback |-> FALSE]
         ELSE ChoiceLoopStrict(rand, i + 1, current_weight + Endpoints[i].weight)

\* `for endpoint in self.endpoints: current_weight += endpoint['weight'];
\* if rand <= current_weight: return endpoint['path']`, and after the loop
\* the fallback `return self.endpoints[0]['path']`
RECURSIVE ChoiceLoop(_, _, _)
ChoiceLoop(rand, i, current_weight) ==
    IF i > Len(Endpoints)
    THEN [path |-> Endpoints[1].path, fallback |-> TRUE]
    ELSE IF rand <= current_weight + Endpoints[i].weight
         THEN [path |-> Endpoints[i].path, fallback |-> FALSE]
         ELSE ChoiceLoop(rand, i + 1, current_weight + Endpoints[i].weight)

\* one call of _weighted_choice whose draw is rand
weighted_choice(rand) ==
    /\ wc_rand' = rand
    /\ wc_path' = ChoiceLoop(rand, 1, 0).path
    /\ wc_fallback' = ChoiceLoop(rand, 1, 0).fallback
    /\ UNCHANGED notChoiceVars

ChoiceNext == \E rand \in Draws : weighted_choice(rand)

SpecChoice == Init /\ [][ChoiceNext]_vars

\* ======================================================== the demo runner
\* ChaosDemo of demo_runner.py: start_component creates a process and tracks
\* it in self.processes; stop_all stops every tracked process that is still
\* running and empties the list.  It is called from the menu, from the
\* SIGINT handler and at the end of the script.

\* start_component: Popen raises (nothing is tracked), or the process is
\* appended to self.processes and is, after wait_time, running or gone
start_component(result) ==
    /\ cd_pc \in {"menu", "stopped"}
    /\ cd_started < MaxComponents
    /\ IF result = "raised"
       THEN UNCHANGED <<cd_state, cd_processes, cd_started>>
       ELSE /\ cd_started' = cd_started + 1
            /\ cd_state' = [cd_state EXCEPT ![cd_started + 1] = result]
            /\ cd_processes' = Append(cd_processes, cd_started + 1)
    /\ cd_pc' = "menu"
    /\ UNCHANGED <<cd_i, cd_failed, cd_signalled>>
    /\ UNCHANGED notRunnerVars

\* a component ends on its own
ComponentExits(p) ==
    /\ cd_state[p] = "running"
    /\ cd_state' = [cd_state EXCEPT ![p] = "exited"]
    /\ UNCHANGED <<cd_pc, cd_processes, cd_i, cd_started, cd_failed, cd_signalled>>
    /\ UNCHANGED notRunnerVars

\* stop_all is called: the loop over self.processes starts
stop_all ==
    /\ cd_pc \in {"menu", "stopped"}
    /\ cd_pc' = "stopping"
    /\ cd_i' = 1
    /\ cd_signalled' = {}
    /\ UNCHANGED <<cd_state, cd_processes, cd_started, cd_failed>>
    /\ UNCHANGED notRunnerVars

\* one pass of the loop of stop_all.  For a process whose poll() is None:
\* terminate(), then wait(timeout=10), and kill() when the wait times out;
\* an exception of any of them is caught and printed, and the loop goes on
StopComponent(how) ==
    /\ cd_pc = "stopping"
    /\ cd_i <= Len(cd_processes)
    /\ LET p == cd_processes[cd_i] IN
       IF cd_state[p] = "running"
       THEN /\ cd_signalled' = cd_signalled \cup {p}
            /\ IF how = "raised"
               THEN /\ cd_failed' = cd_failed \cup {p}
                    /\ UNCHANGED cd_state
               ELSE /\ cd_state' = [cd_state EXCEPT ![p] = how]
                    /\ UNCHANGED cd_failed
       ELSE /\ how = "terminated"
            /\ UNCHANGED <<cd_state, cd_failed, cd_signalled>>
    /\ cd_i' = cd_i + 1
    /\ UNCHANGED <<cd_pc, cd_processes, cd_started>>
    /\ UNCHANGED notRunnerVars

\* a stop_all that returns with the list as it was
StopAllKeep ==
    /\ cd_pc = "stopping"
    /\ cd_i > Len(cd_processes)
    /\ cd_pc' = "stopped"
    /\ cd_i' = 0
    /\ UNCHANGED <<cd_state, cd_processes, cd_started, cd_failed, cd_signalled>>
    /\ UNCHANGED notRunnerVars

\* the loop is over: self.processes.clear(), the report, and stop_all returns
StopAllDone ==
    /\ cd_pc = "stopping"
    /\ cd_i > Len(cd_processes)
    /\ cd_processes' = << >>
    /\ cd_pc' = "stopped"
    /\ cd_i' = 0
    /\ UNCHANGED <<cd_state, cd_started, cd_failed, cd_signalled>>
    /\ UNCHANGED notRunnerVars

RunnerNext ==
    \/ \E result \in {"running", "exited", "raised"} : start_component(result)
    \/ \E p \in Components : ComponentExits(p)
    \/ stop_all
    \/ \E how \in {"terminated", "killed", "raised"} : StopComponent(how)
    \/ StopAllDone

SpecRunner == Init /\ [][RunnerNext]_vars

\* ============================================ the dashboard's components
\* StreamlitChaosDemo of streamlit_app.py keeps the processes it started in
\* the dict self.running_processes, keyed by the component name.

\* `component in self.running_processes`
Tracked(component) ==
    component \in DashboardComponents /\ sl_table[component] # 0

\* start_component(component); Popen returns a process or raises, which
\* `except Exception` turns into False
dashboard_start(component, popen) ==
    /\ sl_spawned < MaxSpawns
    /\ IF Tracked(component)
       THEN /\ sl_last' = [op |-> "start", component |-> component, value |-> TRUE]
            /\ UNCHANGED <<sl_table, sl_proc, sl_spawned>>
       ELSE IF component \in DashboardComponents /\ popen # "raised"
       THEN /\ sl_spawned' = sl_spawned + 1
            /\ sl_proc' = [sl_proc EXCEPT ![sl_spawned + 1] = popen]
            /\ sl_table' = [sl_table EXCEPT ![component] = sl_spawned + 1]
            /\ sl_last' = [op |-> "start", component |-> component, value |-> TRUE]
       ELSE /\ sl_last' = [op |-> "start", component |-> component, value |-> FALSE]
            /\ UNCHANGED <<sl_table, sl_proc, sl_spawned>>
    /\ UNCHANGED notDashboardVars

\* stop_component(component): terminate() and `del`, for a tracked name
dashboard_stop(component) ==
    /\ IF Tracked(component)
       THEN /\ sl_proc' = [sl_proc EXCEPT ![sl_table[component]] =
                              IF @ = "running" THEN "terminated" ELSE @]
            /\ sl_table' = [sl_table EXCEPT ![component] = 0]
       ELSE UNCHANGED <<sl_table, sl_proc>>
    /\ sl_last' = [op |-> "stop", component |-> component, value |-> FALSE]
    /\ UNCHANGED sl_spawned
    /\ UNCHANGED notDashboardVars

\* a component ends on its own: the load tester at the end of its test, any
\* of them by an error
DashboardProcessExits(p) ==
    /\ sl_proc[p] = "running"
    /\ sl_proc' = [sl_proc EXCEPT ![p] = "exited"]
    /\ UNCHANGED <<sl_table, sl_spawned, sl_last>>
    /\ UNCHANGED notDashboardVars

DashboardNext ==
    \/ \E component \in ComponentNames, popen \in {"running", "raised"} :
          dashboard_start(component, popen)
    \/ \E component \in ComponentNames : dashboard_stop(component)
    \/ \E p \in 1..MaxSpawns : DashboardProcessExits(p)

SpecDashboard == Init /\ [][DashboardNext]_vars

\* =================================================== the demo application
\* The views of demo_app.py, each run by the thread of its request.
\* `app_state[key] += 1` reads the counter and writes it back in two steps;
\* no lock is held, so another request thread can run between them.

\* the views whose first statement is app_state['request_count'] += 1
CountedRoutes ==
    {"/", "/health", "/api/data", "/api/slow", "/api/memory-intensive",
     "/api/cpu-intensive", "/api/database"}

\* the views that can go on to app_state['error_count'] += 1: get_data and
\* database_simulation by their simulated errors, memory_intensive by an
\* exception that the 500 handler internal_error answers
ErrorRoutes == {"/api/data", "/api/database", "/api/memory-intensive"}

\* a request for a counted view arrives
AppRequest(t, route) ==
    /\ ap_pc[t] = "idle"
    /\ ap_served < MaxAppRequests
    /\ ap_served' = ap_served + 1
    /\ ap_route' = [ap_route EXCEPT ![t] = route]
    /\ ap_pc' = [ap_pc EXCEPT ![t] = "load_request"]
    /\ UNCHANGED <<app_state, ap_reg, ap_stats>>
    /\ UNCHANGED notAppVars

\* app_state['request_count'] += 1: the read
AppLoadRequestCount(t) ==
    /\ ap_pc[t] = "load_request"
    /\ ap_reg' = [ap_reg EXCEPT ![t] = app_state.request_count]
    /\ ap_pc' = [ap_pc EXCEPT ![t] = "store_request"]
    /\ UNCHANGED <<app_state, ap_route, ap_served, ap_stats>>
    /\ UNCHANGED notAppVars

\* app_state['request_count'] += 1: the write
AppStoreRequestCount(t) ==
    /\ ap_pc[t] = "store_request"
    /\ app_state' = [app_state EXCEPT !.request_count = ap_reg[t] + 1]
    /\ ap_pc' = [ap_pc EXCEPT ![t] = "view"]
    /\ UNCHANGED <<ap_reg, ap_route, ap_served, ap_stats>>
    /\ UNCHANGED notAppVars

\* the rest of the view: it answers, or it goes on to count an error
AppView(t, error) ==
    /\ ap_pc[t] = "view"
    /\ error => ap_route[t] \in ErrorRoutes
    /\ ap_pc' = [ap_pc EXCEPT ![t] = IF error THEN "load_error" ELSE "idle"]
    /\ UNCHANGED <<app_state, ap_reg, ap_route, ap_served, ap_stats>>
    /\ UNCHANGED notAppVars

\* app_state['error_count'] += 1: the read
AppLoadErrorCount(t) ==
    /\ ap_pc[t] = "load_error"
    /\ ap_reg' = [ap_reg EXCEPT ![t] = app_state.error_count]
    /\ ap_pc' = [ap_pc EXCEPT ![t] = "store_error"]
    /\ UNCHANGED <<app_state, ap_route, ap_served, ap_stats>>
    /\ UNCHANGED notAppVars

\* app_state['error_count'] += 1: the write, and the error is answered
AppStoreErrorCount(t) ==
    /\ ap_pc[t] = "store_error"
    /\ app_state' = [app_state EXCEPT !.error_count = ap_reg[t] + 1]
    /\ ap_pc' = [ap_pc EXCEPT ![t] = "idle"]
    /\ UNCHANGED <<ap_reg, ap_route, ap_served, ap_stats>>
    /\ UNCHANGED notAppVars

\* get_stats: it counts nothing and answers from the two counters;
\* error_rate is error_count / max(request_count, 1)
get_stats(t) ==
    /\ ap_pc[t] = "idle"
    /\ ap_stats' = [asked |-> TRUE,
                    total_requests |-> app_state.request_count,
                    error_count |-> app_state.error_count]
    /\ UNCHANGED <<app_state, ap_pc, ap_reg, ap_route, ap_served>>
    /\ UNCHANGED notAppVars

\* max(app_state['request_count'], 1)
Max1(n) == IF n > 1 THEN n ELSE 1

AppNext ==
    \/ \E t \in AppThreads, route \in CountedRoutes : AppRequest(t, route)
    \/ \E t \in AppThreads : AppLoadRequestCount(t)
    \/ \E t \in AppThreads : AppStoreRequestCount(t)
    \/ \E t \in AppThreads, error \in BOOLEAN : AppView(t, error)
    \/ \E t \in AppThreads : AppLoadErrorCount(t)
    \/ \E t \in AppThreads : AppStoreErrorCount(t)
    \/ \E t \in AppThreads : get_stats(t)

SpecApp == Init /\ [][AppNext]_vars

\* ================================================================ claims

\* C1: for any target, at most one experiment run is Active at any instant.
C1_OneActiveRunPerTarget ==
    \A m1, m2 \in Monkeys :
        (m1 # m2 /\ Active(m1) /\ Active(m2))
            => Experiment(m1).target # Experiment(m2).target

\* C2: an experiment whose probability is 0.0 is never executed, whatever
\* else is registered and however many ticks pass.
C2_ZeroProbabilityNeverRuns ==
    \A m \in Monkeys :
        (pc[m] \in ExecLocations \/ "executing" \in outcome[m])
            => Experiment(m).probability > 0

\* a tick selected a probability-0.0 experiment and skipped it
C2_Witness ==
    \E m \in Monkeys :
        /\ pc[m] = "sleep" /\ cur[m] # 0 /\ Len(experiments) = MaxExperiments
        /\ Experiment(m).probability = 0
        /\ outcome[m] = {"skipping"}

\* C3: a tick that selects an experiment whose probability is 1.0 makes it
\* Active in that tick: such an experiment is never skipped.
C3_CertainExperimentRuns ==
    \A m \in Monkeys :
        (cur[m] # 0 /\ Experiment(m).probability = ProbScale)
            => /\ "skipping" \notin outcome[m]
               /\ "executing" \in outcome[m]

\* the first thing a process did was to run a probability-1.0 experiment
C3_Witness ==
    \E m \in Monkeys :
        /\ Active(m) /\ Experiment(m).probability = ProbScale
        /\ outcome[m] = {"executing"}

\* C4: a resource a run acquired is released by the time the run ends, on
\* every exit path: the temp file exists only while a DiskFill run is in
\* progress, and memory blocks are held only inside a MemoryStress run.
C4_ReleasedWhenRunEnds ==
    /\ temp_file => \E m \in Monkeys :
                        pc[m] \in {"disk_hold", "disk_exists", "disk_remove"}
    /\ \A m \in Monkeys :
          memory_hog[m] > 0 => pc[m] \in {"mem_alloc", "mem_hold"}

\* C5: an error raised inside a run stays inside _execute_experiment, is
\* logged as that run's outcome, and leaves the loop running and asleep
\* until its next tick.
C5_ErrorConfinedToRun ==
    /\ [](\A m \in Monkeys : exc[m] = "error" => pc[m] \in ExecLocations)
    /\ [][\A m \in Monkeys :
            (pc[m] = "except" /\ pc'[m] # "except")
                => \/ pc'[m] = "killed"
                   \/ /\ pc'[m] = "sleep"
                      /\ timer'[m] = Interval
                      /\ "error" \in outcome'[m]
                      /\ exc'[m] = "none"
                      /\ running'[m] = running[m]]_vars

\* a run ended with an error and the loop, still running, is about to wake
\* up for its next tick
C5_Witness ==
    \E m \in Monkeys :
        /\ pc[m] = "loop" /\ running[m] /\ "error" \in outcome[m]

\* C6: after a run on a target ended, no scheduler selects an experiment for
\* that target until the cooldown (the interval) has elapsed.
C6_CooldownRespected ==
    [][\A m \in Monkeys :
         (pc[m] = "loop" /\ pc'[m] \in (ExecLocations \cup {"sleep"}) /\ cur'[m] # 0)
             => sinceTerminal[experiments[cur'[m]].target] >= Interval]_vars

\* C7: once self.running is False, a CpuStress worker that reaches its loop
\* condition stops there, and the run's join returns, without any time
\* having to pass.
C7_CpuCancelObserved ==
    /\ [][\A w \in Workers :
            (workers[MainMonkey][w] = "check" /\ ~running[MainMonkey]
               /\ workers'[MainMonkey][w] # "check")
                => workers'[MainMonkey][w] \in {"done", "none"}]_vars
    /\ (pc[MainMonkey] = "cpu_join" /\ ~running[MainMonkey])
           ~> (pc[MainMonkey] # "cpu_join")

\* stop() arrived while the workers were burning with time left, and they
\* have all stopped although the duration has not elapsed
C7_Witness ==
    /\ pc[MainMonkey] = "cpu_join" /\ ~running[MainMonkey]
    /\ cpu_left[MainMonkey] = Experiment(MainMonkey).duration
    /\ \A w \in 1..ParamGet(Experiment(MainMonkey).parameters, "cores", DefaultCores) :
          workers[MainMonkey][w] = "done"

\* C8: a cancellation that arrives while a MemoryStress run holds its blocks
\* ends the run before its duration has elapsed.
C8_CancelEndsMemoryHold ==
    [][\A m \in Monkeys :
         ~ /\ pc[m] = "mem_hold" /\ ~running[m] /\ timer[m] > 0
           /\ pc'[m] = "mem_hold" /\ timer'[m] = 0]_vars

\* C9: a probe whose request times out or is refused returns a sample marked
\* unreachable and does not raise.
C9_UnreachableIsASample ==
    /\ probe_pc # "raised"
    /\ (probe_pc = "returned"
          /\ (health_response.kind \in Failures \/ stats_response.kind \in Failures))
         => /\ sample.status = "unreachable"
            /\ prober = "monitor" => (sample.connectivity = FALSE)

\* the monitor's GET /stats failed after GET /health had answered
C9_Witness ==
    /\ probe_pc = "returned" /\ prober = "monitor"
    /\ health_response.kind = "response"
    /\ stats_response.kind = "refused"
    /\ sample.connectivity = FALSE

\* C10: the probe classifies any 2xx status as reachable, any other status
\* as degraded, and a connection failure as unreachable.
C10_ClassifiesEveryResponse ==
    (probe_pc = "returned" /\ prober = "dashboard")
        => sample.status =
             IF health_response.kind \in Failures THEN "unreachable"
             ELSE IF health_response.status_code \in 200..299 THEN "healthy"
             ELSE "degraded"

\* C11: after every iteration of the monitoring loop the history holds at
\* most 100 samples, and they are the most recently collected samples in
\* the order of their collection.
C11_HistoryBounded ==
    mon_pc \in {"sleep", "loop", "exited"}
        => /\ Len(metrics_history) <= HistoryLimit
           /\ Len(metrics_history) =
                  (IF collected < HistoryLimit THEN collected ELSE HistoryLimit)
           /\ \A i \in 1..Len(metrics_history) :
                  metrics_history[i] = collected - Len(metrics_history) + i

\* an iteration has ended after the oldest samples were evicted
C11_Witness ==
    /\ mon_pc = "sleep"
    /\ Len(metrics_history) = HistoryLimit
    /\ metrics_history[1] > 1

\* C12: a run that has ended was reported exactly once: one outcome line,
\* "completed" or "error", and never "completed" for a run that ended with
\* an error.
C12_ReportedExactlyOnce ==
    \A m \in Monkeys :
        (pc[m] \in {"sleep", "loop"} /\ "executing" \in outcome[m])
            => Cardinality(outcome[m] \cap {"completed", "error"}) = 1

\* C13: the writers of the shared request statistics are serialized: no
\* update is lost, so once no worker thread is inside an update the counter
\* equals the number of requests made.
C13_NoLostUpdate ==
    (\A w \in LoadWorkers : lt_pc[w] = "idle")
        => /\ stats.total_requests = made
           /\ stats.successful_requests + stats.failed_requests = made

\* C14: when a block allocation or the temp-file write raises, what the run
\* had acquired is released before the error leaves the fault: at the
\* handler of _execute_experiment no block is held and no temp file is left,
\* and the steps that carry the error there are the ones that release.
C14_FailedAcquisitionReleases ==
    /\ [](pc[MainMonkey] = "except"
            => memory_hog[MainMonkey] = 0 /\ ~temp_file)
    /\ [][(pc[MainMonkey] = "mem_alloc" /\ exc'[MainMonkey] = "error")
            => memory_hog'[MainMonkey] = 0]_vars
    /\ [][(pc[MainMonkey] = "disk_remove" /\ exc[MainMonkey] = "error"
             /\ pc'[MainMonkey] \notin {"disk_remove", "killed"})
            => (~temp_file' /\ pc'[MainMonkey] = "except")]_vars

\* the write of a DiskFill run failed, its finally clause has run and the
\* error has reached the handler of _execute_experiment
C14_Witness ==
    /\ pc[MainMonkey] = "except"
    /\ Experiment(MainMonkey).chaos_type = "disk_fill"
    /\ "completed" \in outcome[MainMonkey]
    /\ ~temp_file

\* C15: a CpuStress run never has more worker threads than its `cores`
\* parameter, and a MemoryStress run never holds more one-megabyte blocks
\* than its `mb` parameter.
C15_AcquisitionBounded ==
    \A m \in Monkeys :
        cur[m] # 0
            => /\ Cardinality({w \in Workers : workers[m][w] # "none"})
                     <= ParamGet(Experiment(m).parameters, "cores", DefaultCores)
               /\ memory_hog[m]
                     <= ParamGet(Experiment(m).parameters, "mb", DefaultMb)

\* a CpuStress run has all the workers it asked for, fewer than the pool of
\* worker slots, and they are burning
C15_Witness ==
    /\ pc[MainMonkey] = "cpu_join"
    /\ Cardinality(Alive(MainMonkey))
          = ParamGet(Experiment(MainMonkey).parameters, "cores", DefaultCores)
    /\ Cardinality(Alive(MainMonkey)) < MaxCores
    /\ \A w \in Alive(MainMonkey) : workers[MainMonkey][w] = "spin"

\* C16: a MemoryStress run whose requested MB would push memory usage over
\* max_memory_percent is refused before it starts: it never enters the
\* allocation loop and holds no block.
C16_MemoryAdmission ==
    \A m \in Monkeys :
        (/\ cur[m] # 0
         /\ Experiment(m).chaos_type = "memory_stress"
         /\ ParamGet(Experiment(m).parameters, "mb", DefaultMb) > MemoryHeadroomMb)
            => /\ pc[m] \notin {"mem_alloc", "mem_hold"}
               /\ memory_hog[m] = 0

\* C18: a DiskFill run whose size would leave no headroom on the disk fails
\* its acquisition and writes nothing: it never holds the temp file.
C18_DiskSpaceVerified ==
    \A m \in Monkeys :
        (/\ cur[m] # 0
         /\ Experiment(m).chaos_type = "disk_fill"
         /\ ParamGet(Experiment(m).parameters, "size_mb", DefaultSizeMb)
               > DiskHeadroomMb)
            => /\ pc[m] # "disk_hold"
               /\ ~temp_file

\* C17: three consecutive unreachable samples taken during an Active run
\* abort that run: it is not left holding its fault while time passes.
C17_UnreachableAborts ==
    [][\A m \in Monkeys :
         ~ /\ run_unreachable[m] >= 3 /\ Active(m)
           /\ pc'[m] = pc[m] /\ timer[m] > 0 /\ timer'[m] = timer[m] - 1]_vars

\* C19: running a fault's cleanup a second time changes nothing and raises
\* no error: the temp file is not deleted twice and the chunks are not
\* freed twice.
C19_ReleaseIdempotent ==
    /\ [][(rel_count >= 1 /\ rel_count' = rel_count + 1)
            => /\ rel_hog' = rel_hog
               /\ rel_file' = rel_file
               /\ ~rel_raised']_vars
    /\ [](rel_count >= 1 => rel_hog = 0 /\ ~rel_file)

\* the cleanup has run twice
C19_Witness ==
    /\ rel_pc = "released"
    /\ rel_count = 2
    /\ ~rel_raised

\* C20: an experiment whose parameters are invalid for its kind is refused
\* at registration: it is never in the registry, and so no run fails on
\* its parameters at execution time.
C20_InvalidSpecRefused ==
    /\ \A i \in 1..Len(experiments) : ~InvalidParameters(experiments[i])
    /\ \A m \in Monkeys :
          (pc[m] = "except" /\ cur[m] # 0) => ~InvalidParameters(Experiment(m))

\* C21: the registry is ordered and only grows at its end: a step either
\* leaves self.experiments as it is or appends one experiment to it, and
\* once start() has been called no step changes it at all.
C21_RegistryAppendOnly ==
    [][/\ \/ experiments' = experiments
          \/ /\ Len(experiments') = Len(experiments) + 1
             /\ SubSeq(experiments', 1, Len(experiments)) = experiments
       /\ (\E m \in Monkeys : pc[m] # "init") => experiments' = experiments]_vars

\* a full registry of two different experiments, one of which has been run
\* to completion
C21_Witness ==
    /\ Len(experiments) = MaxExperiments
    /\ experiments[1] # experiments[2]
    /\ pc[MainMonkey] = "sleep"
    /\ "completed" \in outcome[MainMonkey]

\* C22: the quick chaos script runs to completion: it never ends with an
\* error, and when its process has ended it has performed its three
\* experiments and reached its final 'completed' step.
C22_QuickChaosCompletes ==
    /\ qc_pc # "raised"
    /\ sd_child["Chaos Experiments"] = "exited"
          => qc_pc = "completed" /\ qc_i = QuickExperiments

\* C27: on every exit path of run_short_demo every child process it started
\* has been terminated by the time it returns.
C27_ChildrenTerminated ==
    sd_pc = "returned" => \A c \in DemoChildren : sd_child[c] # "running"

\* C23: once stop() has been called on a running ChaosMonkey, the scheduler
\* loop starts no new experiment: no step taken while self.running is False
\* logs 'Executing chaos experiment' and dispatches a fault.
C23_StopStartsNothing ==
    [][\A m \in Monkeys :
         ~ /\ ~running[m]
           /\ pc[m] \notin ExecLocations
           /\ pc'[m] \in ExecLocations]_vars

\* C24: for any interleaving of the worker threads, once all workers have
\* been joined total_requests equals successful_requests plus
\* failed_requests and equals the number of requests the workers made.
C24_CountersAgreeAfterJoin ==
    lt_main \in {"final", "returned", "raised"}
        => /\ stats.total_requests
                = stats.successful_requests + stats.failed_requests
           /\ stats.total_requests = made

\* C25: start_load_test terminates: every worker thread exits once its
\* duration has elapsed or running has been cleared, only then does the main
\* thread pass the joins, and the final statistics are produced exactly
\* once.
C25_LoadTestTerminates ==
    /\ <>(lt_main \in {"returned", "raised"})
    /\ \A w \in LoadWorkers : ~WorkerCondition ~> lt_pc[w] = "exited"
    /\ [](lt_main \in {"final", "returned", "raised"} => AllExited)
    /\ [](lt_finals = IF lt_main \in {"returned", "raised"} THEN 1 ELSE 0)

\* an interrupted load test that made requests has ended, with its final
\* statistics produced
C25_Witness ==
    /\ lt_main \in {"returned", "raised"}
    /\ ~lt_running
    /\ lt_left > 0
    /\ made > 0
    /\ lt_finals = 1

\* C30: for every draw r of 1..total_weight, _weighted_choice returns the
\* endpoint whose cumulative-weight interval contains r, so each endpoint is
\* returned for exactly `weight` of the total_weight draws, and the fallback
\* return is never reached.
C30_WeightedChoice ==
    wc_rand # 0 =>
        /\ ~wc_fallback
        /\ \E i \in 1..Len(Endpoints) :
              /\ wc_path = Endpoints[i].path
              /\ WeightOfFirst(i - 1) < wc_rand
              /\ wc_rand <= WeightOfFirst(i)
              /\ Cardinality({r \in Draws : ChoiceLoop(r, 1, 0).path = wc_path})
                    = Endpoints[i].weight

\* the last draw of an endpoint's interval, which is also the last draw of
\* all, has been made
C30_Witness ==
    /\ wc_rand = TotalWeight
    /\ wc_path = Endpoints[Len(Endpoints)].path

\* C26: when ChaosDemo.stop_all has returned the list of tracked components
\* is empty and every component that was running has been stopped, by
\* terminate() or after the grace period by kill(); a component whose stop
\* raised does not keep the others from being stopped (it alone is left
\* running); and a stop_all that follows another finds nothing tracked and
\* signals no process.
C26_StopAllStopsAll ==
    /\ cd_pc = "stopped"
          => /\ cd_processes = << >>
             /\ \A p \in Components : cd_state[p] = "running" => p \in cd_failed
             /\ \A p \in cd_signalled \ cd_failed :
                    cd_state[p] \in {"terminated", "killed"}
    /\ (cd_pc = "stopping" /\ cd_processes = << >>) => cd_signalled = {}

\* stop_all has returned after one component ended at terminate(), one had
\* to be killed, and the stop of one raised
C26_Witness ==
    /\ cd_pc = "stopped"
    /\ cd_failed # {}
    /\ \E p, q \in cd_signalled :
          cd_state[p] = "terminated" /\ cd_state[q] = "killed"

\* C28: for any sequence of start_component and stop_component calls of the
\* dashboard, a component name tracks at most one process and no process is
\* tracked under two names; start_component on a tracked component creates
\* no process and returns True; on an unknown name it returns False and
\* leaves the table as it was; and a component it reports as started is
\* running when the call returns.
C28_OneProcessPerComponent ==
    /\ [](\A c, d \in DashboardComponents :
            (sl_table[c] # 0 /\ sl_table[c] = sl_table[d]) => c = d)
    /\ [][(sl_last' # sl_last /\ sl_last'.op = "start")
            => LET c == sl_last'.component IN
               /\ Tracked(c) => sl_last'.value /\ sl_spawned' = sl_spawned
               /\ c \notin DashboardComponents
                     => ~sl_last'.value /\ sl_table' = sl_table
               /\ sl_last'.value => sl_proc'[sl_table'[c]] = "running"]_vars

\* C29: in every reachable state of the demo application, under any
\* interleaving of concurrent requests, error_count is at most
\* request_count, so the error_rate that /stats reports lies in [0, 1].
C29_ErrorsWithinRequests ==
    /\ app_state.error_count <= app_state.request_count
    /\ ap_stats.asked
          => /\ 0 <= ap_stats.error_count
             /\ ap_stats.error_count <= Max1(ap_stats.total_requests)

====
